---- MODULE Spec2Model ----
(***************************************************************************)
(* Receipt generator (src/App.tsx): the field store (receiptData and       *)
(* handleDataChange), the layout effect that measures the preview height,  *)
(* the export pipeline (handleDownload: clone, settle delay, html2canvas,  *)
(* resample to 840px, download, cleanup) and the busy flag (isDownloading) *)
(* that disables the download button.                                      *)
(*                                                                         *)
(* Execution is single-threaded and event-driven.  One action is one       *)
(* event-loop task: a DOM event handler up to its end or first await, or   *)
(* the continuation of handleDownload after an await.  React commits a     *)
(* state update made in a task before the next user event is dispatched,   *)
(* so the committed state is what the variables hold.                      *)
(***************************************************************************)
EXTENDS Integers, Sequences, FiniteSets, TLC

\* ---------------------------------------------------------------- bounds
MaxExports == 2        \* invocations of handleDownload that are tracked at a time
MaxEdits == 1          \* invocations of handleDataChange in one run
MaxOffsetHeight == 2   \* largest rendered height of the preview, in CSS pixels

\* ------------------------------------------------------ program constants
PREVIEW_SOURCE_WIDTH == 600
PREVIEW_DISPLAY_WIDTH == 600
captureScale == 2
targetWidth == 840

\* ------------------------------------------------------------ field store
\* The nine keys of ReceiptData.
ReceiptFields ==
    {"transactionId", "dateTime", "amount", "fromAccount", "beneficiaryName",
     "beneficiaryAccount", "purpose", "comments", "channel"}

\* The initial FieldSet (the argument of useState).
DefaultReceiptData ==
    [f \in ReceiptFields |->
        CASE f = "transactionId"      -> "16325459761"
          [] f = "dateTime"           -> "10/25/2025 9:09:24 PM"
          [] f = "amount"             -> "9,000"
          [] f = "fromAccount"        -> "ST MEDIA (PRIV"
          [] f = "beneficiaryName"    -> "ST MEDIA (PRIV"
          [] f = "beneficiaryAccount" -> "*4003"
          [] f = "purpose"            -> "Others"
          [] f = "comments"           -> "Miscellaneous"
          [] f = "channel"            -> "via HBL PAY"]

\* e.target.name is any string: the recognized keys and one that is not.
UnknownField == "nickname"
EventNames == ReceiptFields \cup {UnknownField}

\* e.target.value is any string, the empty one included.
EventValues == {"", "X"}

\* An updater without the spread: { [name]: value }.
SetFieldWithoutSpread(prevData, name, value) ==
    [k \in {name} |-> value]

\* The updater of setReceiptData: { ...prevData, [name]: value }.
SetField(prevData, name, value) ==
    [k \in (DOMAIN prevData) \cup {name} |->
        IF k = name THEN value ELSE prevData[k]]

\* --------------------------------------------------------- export numbers
\* The rendered heights of the preview surface and of its clone.
SurfaceHeights == 1..MaxOffsetHeight

\* The canvas html2canvas resolves with has scale times the size of the clone,
\* whose width is set to PREVIEW_SOURCE_WIDTH.
RasterWidths == {captureScale * PREVIEW_SOURCE_WIDTH}
RasterHeights == {captureScale * hh : hh \in SurfaceHeights}

\* targetCanvas.height = targetHeight, where targetHeight is the fraction
\* targetWidth / (w / h): the height attribute is an unsigned long, and the
\* conversion of a number to it drops the fraction.
CanvasHeight(w, h) == (targetWidth * h) \div w

\* Math.round(targetHeight): the nearest integer, a half rounding up.
RoundedHeight(w, h) == (2 * targetWidth * h + w) \div (2 * w)

\* ------------------------------------------------------------------ state
VARIABLES
    mounted,        \* the App component is mounted
    previewRef,     \* previewRef.current: "null" or "node"
    offsetHeight,   \* previewRef.current.offsetHeight while the node exists
    surfaceStyle,   \* the inline style of the live preview node
    receiptData,    \* the FieldSet (useState)
    edits,          \* handleDataChange invocations so far
    isDownloading,  \* the busy flag (useState)
    previewHeight,  \* the measured height (useState)
    timer,          \* pending deferred calculateHeight timers
    cancelled,      \* the last clearTimeout cancelled a timer that was pending
    listeners,      \* resize listeners registered on window
    pc,             \* per tracked invocation: where it is, or how it ended
    attached,       \* the invocations whose clone is a child of document.body
    alerts,         \* the invocations that showed the alert
    rejected,       \* the invocations whose promise rejected (uncaught exception)
    file,           \* per invocation: the download it triggered, or NoFile
    clone,          \* the clones that exist, by invocation: content and style
    clicks          \* per invocation: its link.click() calls, each with the
                    \* state it was made in

vars == <<mounted, previewRef, offsetHeight, surfaceStyle, receiptData, edits,
          isDownloading, previewHeight, timer, cancelled, listeners, pc, attached,
          alerts, rejected, file, clone, clicks>>

fieldVars == <<receiptData, edits>>
layoutVars == <<previewHeight, timer, cancelled, listeners>>
exportVars == <<isDownloading, pc, attached, alerts, rejected, file, clone, clicks>>

\* handleDownload may be invoked any number of times. An invocation is tracked
\* in a slot from its start until the slot is taken by a later invocation;
\* pc, attached, alerts, rejected and file describe the invocation in the slot.
Invocations == 1..MaxExports
NoFile == [name |-> <<>>]

\* An invocation is suspended at one of its two awaits.
InFlight == {"settle", "raster"}
\* The ways an invocation ends. "attachError" is an exception raised by lines
\* 66-72, before the try statement: the promise of handleDownload rejects.
Caught == {"rasterError", "contextError", "drawError", "encodeError"}
Ended == {"noSurface", "attachError", "ok"} \cup Caught
\* What can go wrong after html2canvas was called.
Faults == {"none"} \cup Caught

\* The five inline style properties handleDownload assigns, as the live
\* node carries them: App sets none of them on the preview node.
InlineStyle ==
    [position |-> "", top |-> "", left |-> "", transform |-> "", width |-> 0]

\* clone.style.position/top/left/transform/width = ...
OffscreenStyle(style) ==
    [style EXCEPT !.position = "absolute", !.top = "0", !.left = "-9999px",
                  !.transform = "none", !.width = PREVIEW_SOURCE_WIDTH]

Init ==
    /\ mounted = TRUE
    /\ previewRef = "null"
    /\ offsetHeight = 0
    /\ surfaceStyle = InlineStyle
    /\ receiptData = DefaultReceiptData
    /\ edits = 0
    /\ isDownloading = FALSE
    /\ previewHeight = 0
    /\ timer = 1
    /\ cancelled = FALSE
    /\ listeners = 1
    /\ pc = [i \in Invocations |-> "unused"]
    /\ attached = {}
    /\ alerts = {}
    /\ rejected = {}
    /\ file = [i \in Invocations |-> NoFile]
    /\ clone = [i \in {} |-> NoFile]
    /\ clicks = [i \in Invocations |-> <<>>]

\* ------------------------------------------------------- preview component
\* The Preview component commits its root element into previewRef.
PreviewAttach ==
    /\ mounted
    /\ previewRef = "null"
    /\ previewRef' = "node"
    /\ \E hh \in SurfaceHeights : offsetHeight' = hh
    /\ UNCHANGED <<mounted, surfaceStyle, fieldVars, layoutVars, exportVars>>

\* ------------------------------------------------- layout sizing controller
\* A measurement that writes nothing.
CalculateHeightNever == previewHeight

\* A measurement that falls back to the source width without a surface.
CalculateHeightFallback ==
    IF previewRef # "null" THEN offsetHeight ELSE PREVIEW_SOURCE_WIDTH

\* calculateHeight: measures only when the surface exists.
CalculateHeight ==
    IF previewRef # "null" THEN offsetHeight ELSE previewHeight

\* scale = PREVIEW_DISPLAY_WIDTH / PREVIEW_SOURCE_WIDTH: the quotient of the
\* two widths, which is the whole number 1 for the widths of the program.
scale == PREVIEW_DISPLAY_WIDTH \div PREVIEW_SOURCE_WIDTH

\* A container style that always computes a pixel height.
ContainerHeightNoAuto == [kind |-> "px", px |-> previewHeight * scale]

\* The height of the preview container:
\* previewHeight ? `${previewHeight * scale}px` : 'auto'.
ContainerHeight ==
    IF previewHeight # 0
      THEN [kind |-> "px", px |-> previewHeight * scale]
      ELSE [kind |-> "auto", px |-> 0]

\* The 100 ms timer of the effect fires.
TimerFires ==
    /\ timer > 0
    /\ timer' = timer - 1
    /\ previewHeight' = CalculateHeight
    /\ UNCHANGED <<mounted, previewRef, offsetHeight, surfaceStyle, fieldVars, cancelled, listeners, exportVars>>

\* The window fires resize: every registered listener runs calculateHeight.
Resize ==
    /\ listeners > 0
    /\ previewHeight' = CalculateHeight
    /\ UNCHANGED <<mounted, previewRef, offsetHeight, surfaceStyle, fieldVars, timer, cancelled, listeners, exportVars>>

\* A cleanup that forgets clearTimeout.
CleanupKeepsTimer ==
    [timer |-> timer, cancelled |-> FALSE, listeners |-> listeners - 1]

\* A cleanup that forgets removeEventListener.
CleanupKeepsListener ==
    [timer |-> IF timer > 0 THEN timer - 1 ELSE 0, cancelled |-> timer > 0,
     listeners |-> listeners]

\* The cleanup of the effect: clearTimeout(timer) cancels the timer of this
\* run of the effect if it has not fired yet, removeEventListener removes the
\* listener of this run.
Cleanup ==
    [timer |-> IF timer > 0 THEN timer - 1 ELSE 0, cancelled |-> timer > 0,
     listeners |-> listeners - 1]

\* The root is unmounted: the cleanup of the effect runs, the ref is cleared.
Teardown ==
    /\ mounted
    /\ mounted' = FALSE
    /\ timer' = Cleanup.timer
    /\ cancelled' = Cleanup.cancelled
    /\ listeners' = Cleanup.listeners
    /\ previewRef' = "null"
    /\ UNCHANGED <<offsetHeight, surfaceStyle, fieldVars, previewHeight, exportVars>>

\* ------------------------------------------------------------ field store
\* handleDataChange, the re-render it causes and the effect keyed on
\* receiptData: cleanup of the previous run, then a new timer and listener.
HandleDataChange(name, value) ==
    /\ mounted
    /\ edits < MaxEdits
    /\ receiptData' = SetField(receiptData, name, value)
    /\ edits' = edits + 1
    /\ timer' = Cleanup.timer + 1
    /\ cancelled' = Cleanup.cancelled
    /\ listeners' = Cleanup.listeners + 1
    /\ IF previewRef # "null"
         THEN \E hh \in SurfaceHeights : offsetHeight' = hh
         ELSE offsetHeight' = offsetHeight
    /\ UNCHANGED <<mounted, previewRef, surfaceStyle, previewHeight, exportVars>>

\* --------------------------------------------------------- export pipeline
\* A button that ignores the busy flag.
ButtonAlwaysEnabled == mounted

\* The download button is rendered while mounted, disabled={isDownloading}.
ButtonEnabled == mounted /\ ~isDownloading

\* A guard that lets a missing surface through.
SurfaceNeverAbsent == FALSE

\* const sourceNode = previewRef.current; if (!sourceNode) return;
SurfaceAbsent == previewRef = "null"

\* setIsDownloading on an unmounted component updates nothing.
SetIsDownloading(value) == IF mounted THEN value ELSE isDownloading

\* A cleanup that runs on the success path only.
RemoveCloneOnSuccess(i, fault) == IF fault = "none" THEN attached \ {i} ELSE attached

\* finally: document.body.removeChild(clone), whatever happened in the try.
RemoveClone(i, fault) == attached \ {i}

\* A catch block that only logs.
NotifyNever(i, fault) == alerts

\* catch: alert(...), reached from every throw inside the try.
Notify(i, fault) == IF fault # "none" THEN alerts \cup {i} ELSE alerts

\* link.download, link.href = targetCanvas.toDataURL(...), link.click():
\* reached only when no earlier step of the try threw.
Download(i, fault, w, h) ==
    IF fault = "none"
      THEN [name |-> <<targetWidth, RoundedHeight(w, h)>>,
            width |-> targetWidth, height |-> CanvasHeight(w, h),
            rasterWidth |-> w, rasterHeight |-> h]
      ELSE file[i]

\* A clone rendered from the data the callback closed over at first render.
CloneNodeStale ==
    [content |-> DefaultReceiptData, style |-> OffscreenStyle(surfaceStyle)]

\* sourceNode.cloneNode(true) and the five style assignments on the clone:
\* a deep copy of what the surface shows, which is the current FieldSet.
CloneNode ==
    [content |-> receiptData, style |-> OffscreenStyle(surfaceStyle)]

\* Style assignments made on sourceNode instead of the clone.
SourceStyleOverridden == OffscreenStyle(surfaceStyle)

\* The style of the live node after lines 66-71: the assignments go to the
\* clone, the node that was cloned keeps its style.
SourceStyleAfterClone == surfaceStyle

\* A click made in the finally block, after the cleanup, on every path.
LinkClickInFinally(i, fault) ==
    Append(clicks[i], [cloneAttached |-> FALSE, busy |-> FALSE])

\* link.click() is the last statement of the try: it runs once, when nothing
\* threw before it, while the clone is attached and the flag is as it is.
LinkClick(i, fault) ==
    IF fault = "none"
      THEN Append(clicks[i], [cloneAttached |-> i \in attached, busy |-> isDownloading])
      ELSE clicks[i]

\* A capture that is started right after the clone is attached.
CaptureWithoutSettle == "raster"

\* After appendChild the function awaits the 300 ms settle timer; html2canvas
\* is called only when that timer has fired.
AfterAttach == "settle"

\* A new invocation is tracked in the first slot whose invocation has ended.
IsNext(i) == pc[i] \notin InFlight /\ \A j \in Invocations : j < i => pc[j] \in InFlight

\* A click on the download button: handleDownload up to its first await.
\* cloneNode/appendChild either succeed or raise; they are not inside the try.
HandleDownload(i) ==
    /\ ButtonEnabled
    /\ IsNext(i)
    /\ alerts' = alerts \ {i}
    /\ file' = [file EXCEPT ![i] = NoFile]
    /\ clicks' = [clicks EXCEPT ![i] = <<>>]
    /\ IF SurfaceAbsent
         THEN /\ pc' = [pc EXCEPT ![i] = "noSurface"]
              /\ rejected' = rejected \ {i}
              /\ UNCHANGED <<isDownloading, attached, clone, surfaceStyle>>
         ELSE /\ isDownloading' = SetIsDownloading(TRUE)
              /\ surfaceStyle' = SourceStyleAfterClone
              /\ \E appended \in BOOLEAN :
                    IF appended
                      THEN /\ attached' = attached \cup {i}
                           /\ clone' = [j \in (DOMAIN clone) \cup {i} |->
                                          IF j = i THEN CloneNode ELSE clone[j]]
                           /\ rejected' = rejected \ {i}
                           /\ pc' = [pc EXCEPT ![i] = AfterAttach]
                      ELSE /\ attached' = attached
                           /\ clone' = clone
                           /\ rejected' = rejected \cup {i}
                           /\ pc' = [pc EXCEPT ![i] = "attachError"]
    /\ UNCHANGED <<mounted, previewRef, offsetHeight, fieldVars, layoutVars>>

\* The 300 ms settle timer fires: html2canvas(clone, ...) is called.
SettleElapsed(i) ==
    /\ pc[i] = "settle"
    /\ pc' = [pc EXCEPT ![i] = "raster"]
    /\ UNCHANGED <<mounted, previewRef, offsetHeight, surfaceStyle, fieldVars, layoutVars,
                   isDownloading, attached, alerts, rejected, file, clone, clicks>>

\* html2canvas settles and the rest of handleDownload runs to its end:
\* resample, download, catch, finally.
RasterSettled(i, fault, w, h) ==
    /\ pc[i] = "raster"
    /\ pc' = [pc EXCEPT ![i] = IF fault = "none" THEN "ok" ELSE fault]
    /\ file' = [file EXCEPT ![i] = Download(i, fault, w, h)]
    /\ alerts' = Notify(i, fault)
    /\ attached' = RemoveClone(i, fault)
    /\ isDownloading' = SetIsDownloading(FALSE)
    /\ clicks' = [clicks EXCEPT ![i] = LinkClick(i, fault)]
    /\ clone' = [j \in (DOMAIN clone) \ {i} |-> clone[j]]
    /\ UNCHANGED <<mounted, previewRef, offsetHeight, surfaceStyle, fieldVars, layoutVars, rejected>>

\* ---------------------------------------------------------- specification
Next ==
    \/ PreviewAttach
    \/ TimerFires
    \/ Resize
    \/ Teardown
    \/ \E name \in EventNames, value \in EventValues : HandleDataChange(name, value)
    \/ \E i \in Invocations : HandleDownload(i)
    \/ \E i \in Invocations : SettleElapsed(i)
    \/ \E i \in Invocations, fault \in Faults, w \in RasterWidths, h \in RasterHeights :
          RasterSettled(i, fault, w, h)

Spec == Init /\ [][Next]_vars

\* The timers fire (the 100 ms measurement timer, the 300 ms settle timer)
\* and the promise of html2canvas settles.
FairSpec ==
    /\ Spec
    /\ WF_vars(TimerFires)
    /\ WF_vars(\E i \in Invocations : SettleElapsed(i))
    /\ WF_vars(\E i \in Invocations, fault \in Faults, w \in RasterWidths,
                  h \in RasterHeights : RasterSettled(i, fault, w, h))

TypeOK ==
    /\ mounted \in BOOLEAN
    /\ previewRef \in {"null", "node"}
    /\ offsetHeight \in 0..MaxOffsetHeight
    /\ DOMAIN receiptData \subseteq EventNames
    /\ edits \in 0..MaxEdits
    /\ isDownloading \in BOOLEAN
    /\ previewHeight \in 0..MaxOffsetHeight
    /\ timer \in 0..1
    /\ cancelled \in BOOLEAN
    /\ listeners \in 0..1
    /\ \A i \in Invocations : pc[i] \in {"unused"} \cup InFlight \cup Ended
    /\ attached \subseteq Invocations
    /\ alerts \subseteq Invocations
    /\ rejected \subseteq Invocations
    /\ surfaceStyle \in {InlineStyle, OffscreenStyle(InlineStyle)}
    /\ DOMAIN clone \subseteq Invocations
    /\ \A i \in Invocations : Len(clicks[i]) <= 1

\* The field store and the layout sizing controller alone: the events that
\* write the variables the measurement reads or writes. No step of the export
\* pipeline writes one of them.
LayoutNext ==
    \/ PreviewAttach
    \/ TimerFires
    \/ Resize
    \/ Teardown
    \/ \E name \in EventNames, value \in EventValues : HandleDataChange(name, value)

\* The 100 ms measurement timer fires.
LayoutFairSpec == Init /\ [][LayoutNext]_vars /\ WF_vars(TimerFires)

\* ------------------------------------------------------------------ claims
Running == {i \in Invocations : pc[i] \in InFlight}

\* C1: once an invocation of handleDownload that attached a clone has
\* finished, on the success path or on any failure path inside the try, its
\* clone is no longer a child of the document; with no invocation in flight
\* the number of attached clones is zero.
C1_CloneRemovedOnEveryPath ==
    /\ \A i \in Invocations : pc[i] \in Ended => i \notin attached
    /\ Running = {} => Cardinality(attached) = 0

\* An export attached its clone, failed at the encoding step and has ended;
\* no clone is left.
C1_Witness ==
    /\ \E i \in Invocations : pc[i] = "encodeError" /\ i \in alerts
    /\ attached = {}

\* C2: while an export is in flight no second one starts: at most one
\* invocation is in flight and at most one clone is attached, in every state.
C2_AtMostOneClone ==
    /\ Cardinality(attached) <= 1
    /\ Cardinality(Running) <= 1

\* An export is in flight with its clone attached, a further invocation is
\* still possible, and the button refuses the click.
C2_Witness ==
    /\ \E i \in Invocations : pc[i] \in InFlight /\ i \in attached
    /\ \E j \in Invocations : IsNext(j) /\ pc[j] = "unused"
    /\ mounted /\ isDownloading /\ ~ButtonEnabled

\* C3: while the component is mounted the busy flag is true exactly when an
\* export is in flight: it is set when an export starts and cleared when that
\* export completes or fails, so it is never false while a clone is attached.
C3_BusyIffInFlight ==
    mounted =>
        /\ isDownloading <=> Running # {}
        /\ attached # {} => isDownloading

\* C4: the step in which html2canvas rejects shows the notification, resets
\* the busy flag, leaves no clone attached and triggers no download.
C4_RasterFailure ==
    [][\A i \in Invocations :
          (pc[i] = "raster" /\ pc'[i] = "rasterError") =>
              /\ i \in alerts'
              /\ (mounted' => ~isDownloading')
              /\ Cardinality(attached') = 0
              /\ file'[i] = NoFile]_vars

\* html2canvas rejected in some export of a mounted component.
C4_Witness ==
    \E i \in Invocations : pc[i] = "rasterError" /\ mounted /\ i \in alerts

\* C5: the canvas that is encoded has width 840 and height
\* round(840 * h / w) for the raster image (w, h) it was made from.
C5_OutputDimensionsRounded ==
    \A i \in Invocations :
        file[i] # NoFile =>
            /\ file[i].width = targetWidth
            /\ file[i].height = RoundedHeight(file[i].rasterWidth, file[i].rasterHeight)

\* C6: the resolution in the download filename is the resolution of the
\* canvas that was encoded.
C6_FilenameIsResolution ==
    \A i \in Invocations :
        file[i] # NoFile => file[i].name = <<file[i].width, file[i].height>>

\* C7: handleDataChange with a field name outside the nine keys changes
\* nothing in the FieldSet: no value, no key.
C7_UnknownFieldIgnored ==
    [][\A value \in EventValues :
          HandleDataChange(UnknownField, value) => receiptData' = receiptData]_vars

\* C8: handleDataChange with a recognized name f and a value v leaves f
\* mapped to v, the set of keys as it was and every other field unchanged.
C8_UpdateSetsOnlyThatField ==
    [][\A f \in ReceiptFields, v \in EventValues :
          HandleDataChange(f, v) =>
              /\ DOMAIN receiptData' = DOMAIN receiptData
              /\ receiptData'[f] = v
              /\ \A g \in DOMAIN receiptData \ {f} : receiptData'[g] = receiptData[g]]_vars

\* An update with the empty string took effect and the other fields still
\* hold their initial values.
C8_Witness ==
    /\ edits = 1
    /\ receiptData["amount"] = ""
    /\ \A g \in ReceiptFields \ {"amount"} : receiptData[g] = DefaultReceiptData[g]
    /\ DOMAIN receiptData = ReceiptFields

\* C9: handleDownload invoked while previewRef.current is null does nothing:
\* no clone, busy flag untouched and idle, no notification, no download, no
\* exception.
C9_MissingSurfaceIsNoOp ==
    [][\A i \in Invocations :
          (previewRef = "null" /\ HandleDownload(i)) =>
              /\ UNCHANGED <<attached, isDownloading>>
              /\ ~isDownloading'
              /\ i \notin attached' /\ i \notin alerts' /\ i \notin rejected'
              /\ file'[i] = NoFile
              /\ pc'[i] = "noSurface"]_vars

\* The button was clicked while no surface existed.
C9_Witness ==
    \E i \in Invocations : pc[i] = "noSurface" /\ previewRef = "null" /\ mounted

\* C10: every invocation that started and ended with an error has been
\* recovered: its promise did not reject, its clone is not attached, and the
\* busy flag of the mounted component is idle once nothing is in flight.
C10_AllErrorsRecovered ==
    \A i \in Invocations :
        pc[i] \in Caught \cup {"attachError"} =>
            /\ i \notin rejected
            /\ i \notin attached
            /\ (mounted /\ Running = {}) => ~isDownloading

\* C11: with the settle timer firing and html2canvas settling, every export
\* that is in flight ends with its clone removed, and a busy flag that was set
\* by the start of an export goes back to idle with no clone attached,
\* whatever edits, measurements and resizes interleave.
C11_StartedExportTerminates ==
    /\ \A i \in Invocations :
          (pc[i] \in InFlight) ~> (pc[i] \in Ended /\ i \notin attached)
    /\ (mounted /\ isDownloading) ~> (~mounted \/ (~isDownloading /\ attached = {}))

\* C12: for a measured height H > 0 the container height is H times
\* displayWidth / sourceWidth, exactly; while the measured height is 0 it is
\* 'auto'.
C12_ContainerHeight ==
    IF previewHeight > 0
      THEN /\ ContainerHeight.kind = "px"
           /\ ContainerHeight.px * PREVIEW_SOURCE_WIDTH = previewHeight * PREVIEW_DISPLAY_WIDTH
      ELSE ContainerHeight.kind = "auto"

\* A measurement of a surface more than one pixel high has been rendered.
C12_Witness ==
    mounted /\ previewHeight > 1 /\ ContainerHeight.kind = "px"

\* C13: teardown cancels the pending deferred measurement and removes the
\* resize listener: once the component is unmounted no timer is pending, no
\* listener is registered and the measured height is never written again.
C13_NoMeasurementAfterTeardown ==
    [][/\ ~mounted' => (timer' = 0 /\ listeners' = 0)
       /\ ~mounted => previewHeight' = previewHeight]_vars

\* The component was torn down while its deferred measurement was pending.
C13_Witness ==
    ~mounted /\ cancelled /\ timer = 0 /\ listeners = 0

\* C14: html2canvas is called for an invocation only from the state in which
\* its clone is attached and its settle timer is pending, by the firing of that
\* timer; a clone is attached throughout the settle wait and the capture.
C14_CaptureAfterSettle ==
    [][\A i \in Invocations :
          /\ (pc'[i] = "raster" /\ pc[i] # "raster") =>
                (pc[i] = "settle" /\ i \in attached /\ SettleElapsed(i))
          /\ pc'[i] \in InFlight => i \in attached']_vars

\* html2canvas is running on an attached clone whose settle delay has elapsed.
C14_Witness ==
    \E i \in Invocations : pc[i] = "raster" /\ i \in attached

\* C15: an export that ended without a failure made exactly one download
\* click, made while its clone was still attached and the busy flag still
\* set; an export that failed or is still running made none; no export makes
\* more than one.
C15_OneDownloadBeforeCleanup ==
    \A i \in Invocations :
        /\ Len(clicks[i]) <= 1
        /\ pc[i] = "ok" <=> Len(clicks[i]) = 1
        /\ Len(clicks[i]) = 1 =>
              /\ clicks[i][1].cloneAttached
              /\ clicks[i][1].busy
              /\ file[i] # NoFile

\* An export succeeded: one click, and afterwards no clone and an idle flag.
C15_Witness ==
    \E i \in Invocations :
        pc[i] = "ok" /\ Len(clicks[i]) = 1 /\ attached = {} /\ ~isDownloading /\ mounted

\* The steps of the export pipeline.
ExportStep(i) ==
    \/ HandleDownload(i)
    \/ SettleElapsed(i)
    \/ \E fault \in Faults, w \in RasterWidths, h \in RasterHeights :
          RasterSettled(i, fault, w, h)

\* C18: no step of an export changes the FieldSet, the live surface (its
\* reference, its rendered height, its inline style) or the measured height;
\* the off-screen position, the transform reset and the width override are on
\* the clone and never on the live surface.
C18_ExportLeavesSurfaceAlone ==
    [][/\ \A i \in Invocations :
             ExportStep(i) =>
                 UNCHANGED <<receiptData, previewRef, offsetHeight, surfaceStyle, previewHeight>>
       /\ surfaceStyle' = InlineStyle
       /\ \A i \in DOMAIN clone' : clone'[i].style = OffscreenStyle(InlineStyle)]_vars

\* An export ended in a run with an edit and a measurement: the edit and the
\* measurement are in place, the live style is untouched.
C18_Witness ==
    \E i \in Invocations :
        /\ pc[i] = "ok"
        /\ receiptData["amount"] = "X"
        /\ previewHeight = offsetHeight /\ previewHeight > 0
        /\ surfaceStyle = InlineStyle

\* C19: the clone holds the FieldSet content the surface showed when the
\* export was triggered, and keeps it for as long as it exists: edits during
\* the settle delay or the html2canvas call change receiptData, not the clone.
C19_CloneIsSnapshot ==
    [][\A i \in Invocations :
          /\ (i \in DOMAIN clone' /\ i \notin DOMAIN clone) =>
                clone'[i].content = receiptData
          /\ (i \in DOMAIN clone' /\ i \in DOMAIN clone) => clone'[i] = clone[i]
          /\ pc'[i] \in InFlight => i \in DOMAIN clone']_vars

\* html2canvas is running on a clone whose content differs from the FieldSet,
\* which was edited after the export was triggered.
C19_Witness ==
    \E i \in DOMAIN clone :
        /\ pc[i] = "raster"
        /\ clone[i].content # receiptData
        /\ clone[i].content = DefaultReceiptData

\* C16: every FieldSet change schedules a deferred measurement, as the mount
\* did; while the component stays mounted with its surface, a scheduled
\* measurement leads to a state in which none is pending and the measured
\* height is the rendered height of the surface; a measurement pass, by the
\* timer or by a resize, writes the rendered height of the surface.
C16_MeasurementFollowsChange ==
    /\ (mounted /\ timer > 0 /\ previewRef = "node")
          ~> (~mounted \/ (timer = 0 /\ previewHeight = offsetHeight))
    /\ [][/\ edits' # edits => timer' = 1
          /\ (previewRef = "node" /\ (TimerFires \/ Resize)) =>
                previewHeight' = offsetHeight]_vars

\* After an edit the deferred measurement has run on the mounted surface.
C16_Witness ==
    /\ mounted /\ previewRef = "node" /\ edits >= 1
    /\ timer = 0 /\ previewHeight = offsetHeight /\ previewHeight > 0

\* C17: a measurement pass that finds no surface writes nothing, and while
\* the mounted component has had no surface the measured height is still 0.
C17_SkippedWithoutSurface ==
    [][/\ (previewRef = "null" /\ (TimerFires \/ Resize)) =>
             previewHeight' = previewHeight
       /\ (mounted' /\ previewRef' = "null") => previewHeight' = 0]_vars

\* The timer scheduled at mount fired before the surface existed.
C17_Witness ==
    /\ mounted /\ previewRef = "null" /\ edits = 0
    /\ timer = 0 /\ ~cancelled /\ previewHeight = 0

\* C20: at most one deferred measurement is pending and at most one resize
\* listener is registered, in every state; the mounted component has exactly
\* one listener.
C20_OneTimerOneListener ==
    /\ timer <= 1
    /\ listeners <= 1
    /\ mounted => listeners = 1

\* An edit was made while the previous measurement was still pending: that
\* one was cancelled, and one timer and one listener are in place.
C20_Witness ==
    mounted /\ edits >= 1 /\ cancelled /\ timer = 1 /\ listeners = 1

====
